---- MODULE Spec2Model ----
(***************************************************************************)
(* Appointment slot allocation and lifecycle of the medical booking        *)
(* backend (backend/server.js).  The persistent store is four collections: *)
(* users, doctor profiles, doctor schedules and appointments.  Every       *)
(* request handler is split at its awaits, where the store is read or      *)
(* written, and the steps of the requests in flight interleave in every    *)
(* specification.  The routes are spread over six specifications, each     *)
(* with the inputs of the properties checked under it: Spec and SpecConc   *)
(* (booking routes), SpecAdmin (deletion of users), SpecRecords (every     *)
(* operation on a stored appointment), SpecListing (profiles, listings,    *)
(* admin GET routes) and SpecRegister (registration).                      *)
(***************************************************************************)
EXTENDS Integers, Sequences, FiniteSets, TLC

VARIABLES users, profiles, schedules, appointments, reqs

vars == <<users, profiles, schedules, appointments, reqs>>

-----------------------------------------------------------------------------
(* Bounds and input sets *)

\* most appointment documents the store holds in a run
MaxAppointments == 2

\* most request handlers in flight at once (SpecConc, SpecRegister)
MaxInFlight == 2

\* most users registered in the store at once (SpecRegister)
MaxUsers == 2

NULL == "null"

\* the accounts of the store, and the tokens issued to them: {sub, role}
Accounts ==
  { [id |-> "p1", role |-> "patient"], [id |-> "p2", role |-> "patient"],
    [id |-> "d1", role |-> "doctor"],  [id |-> "d2", role |-> "doctor"],
    [id |-> "a1", role |-> "admin"] }

Tokens == { [sub |-> a.id, role |-> a.role] : a \in Accounts }

Dates == { "2025-06-01" }

Times == { "09:00", "09:30" }

Slot(s, e, a) == [start_time |-> s, end_time |-> e, is_available |-> a]

\* the time_slots bodies a publish request carries
SlotLists ==
  { << Slot("09:00", "09:30", TRUE) >>,
    << Slot("08:30", "09:00", TRUE), Slot("09:00", "09:30", TRUE),
       Slot("09:30", "10:00", FALSE) >> }

-----------------------------------------------------------------------------
(* pages/DoctorDashboard.js: the slots the dashboard sends when the doctor *)
(* creates a schedule                                                      *)

RECURSIVE padStart(_, _)
\* String.prototype.padStart(targetLength, "0")
padStart(str, targetLength) ==
  IF Len(str) >= targetLength THEN str
                              ELSE padStart("0" \o str, targetLength)

\* the end hour that never moves to the next hour
endHourSameHour(hour, minute) == hour

endHour(hour, minute) == IF minute = 30 THEN hour + 1 ELSE hour

endMinute(minute) == IF minute = 30 THEN "00" ELSE "30"

generatedSlot(hour, minute) ==
  [start_time   |-> padStart(ToString(hour), 2) \o ":"
                      \o padStart(ToString(minute), 2),
   end_time     |-> padStart(ToString(endHour(hour, minute)), 2) \o ":"
                      \o endMinute(minute),
   is_available |-> TRUE]

RECURSIVE minuteLoop(_, _, _)
\* for (let minute = 0; minute < 60; minute += 30)
minuteLoop(slots, hour, minute) ==
  IF minute < 60
    THEN minuteLoop(Append(slots, generatedSlot(hour, minute)), hour,
                    minute + 30)
    ELSE slots

RECURSIVE hourLoop(_, _)
\* for (let hour = 8; hour < 17; hour++)
hourLoop(slots, hour) ==
  IF hour < 17
    THEN hourLoop(minuteLoop(slots, hour, 0), hour + 1)
    ELSE slots

generateTimeSlots == hourLoop(<< >>, 8)

-----------------------------------------------------------------------------

\* doctor_id values a create request carries ("p1" is a user, not a doctor)
BookDoctorIds == { "d1", "p1" }

Reasons == { "checkup", "" }

Statuses == { "pending", "confirmed", "completed", "cancelled" }

\* status values a PATCH body carries ("archived" is outside the enum, NULL
\* is a body without a status field)
BodyStatuses == Statuses \cup { "archived", NULL }

\* doctor_notes values a PATCH body carries ("": empty, as falsy as absent)
BodyNotes == { "", "healthy" }

AppointmentIds == 1..MaxAppointments

\* doctor ids a free-slot query carries
QueryDoctorIds == { "d1", "d2" }

\* user ids an administrative deletion carries
DeleteUserIds == { "d1", "p1", "a1" }

Handlers == 1..MaxInFlight

-----------------------------------------------------------------------------
(* Responses *)

Resp(code, detail) == [code |-> code, detail |-> detail]

Ok == Resp(200, "ok")

NoResp == Resp(0, "")

-----------------------------------------------------------------------------
(* middleware/auth.js *)

requireDoctor(user) == user.role = "doctor"

\* the role check that lets every authenticated caller through
requireAnyRole(user) == user.role \in { "patient", "doctor", "admin" }

requirePatient(user) == user.role = "patient"

requireAdmin(user) == user.role = "admin"

-----------------------------------------------------------------------------
(* Store queries.  findOne returns the first matching document in          *)
(* insertion order; 0 stands for null.                                     *)

findOne(matching) ==
  IF matching = {}
    THEN 0
    ELSE CHOOSE i \in matching : \A j \in matching : i <= j

FindDoctor(U, doctor_id) ==
  \E u \in U : u.id = doctor_id /\ u.role = "doctor"

FindSchedule(S, doctor_id, date) ==
  findOne({ i \in DOMAIN S : S[i].doctor_id = doctor_id /\ S[i].date = date })

\* the slot test without the is_available flag
slotAvailableAnyFlag(schedule, appointment_time) ==
  \E i \in DOMAIN schedule.time_slots :
    schedule.time_slots[i].start_time = appointment_time

slotAvailable(schedule, appointment_time) ==
  \E i \in DOMAIN schedule.time_slots :
    /\ schedule.time_slots[i].start_time = appointment_time
    /\ schedule.time_slots[i].is_available

\* the status filter without "confirmed"
IsActivePendingOnly(a) == a.status \in { "pending" }

IsActive(a) == a.status \in { "pending", "confirmed" }

\* the lookup of an appointment on the slot without the status filter
FindBookedAnyStatus(A, doctor_id, appointment_date, appointment_time) ==
  findOne({ i \in DOMAIN A : /\ A[i].doctor_id = doctor_id
                             /\ A[i].appointment_date = appointment_date
                             /\ A[i].appointment_time = appointment_time })

FindBooked(A, doctor_id, appointment_date, appointment_time) ==
  findOne({ i \in DOMAIN A : /\ A[i].doctor_id = doctor_id
                             /\ A[i].appointment_date = appointment_date
                             /\ A[i].appointment_time = appointment_time
                             /\ IsActive(A[i]) })

FindAppointment(A, appointment_id) ==
  IF appointment_id \in DOMAIN A THEN appointment_id ELSE 0

\* the times of the appointments of a doctor and date, whatever their status
bookedTimesAnyStatus(A, doctor_id, date) ==
  { A[i].appointment_time :
      i \in { j \in DOMAIN A : /\ A[j].doctor_id = doctor_id
                               /\ A[j].appointment_date = date } }

\* GET available-slots: the times of Appointment.find({doctor_id,
\* appointment_date, status in [pending, confirmed]})
bookedTimes(A, doctor_id, date) ==
  { A[i].appointment_time :
      i \in { j \in DOMAIN A : /\ A[j].doctor_id = doctor_id
                               /\ A[j].appointment_date = date
                               /\ IsActive(A[j]) } }

\* the filter without the is_available flag
availableSlotsIgnoringFlag(time_slots, booked) ==
  LET keep(slot) == slot.start_time \notin booked
  IN  SelectSeq(time_slots, keep)

\* GET available-slots: schedule.time_slots.filter(...)
availableSlots(time_slots, booked) ==
  LET keep(slot) == slot.is_available /\ slot.start_time \notin booked
  IN  SelectSeq(time_slots, keep)

FindUser(U, id) == \E u \in U : u.id = id

-----------------------------------------------------------------------------
(* Documents *)

NewSchedule(user, date, time_slots) ==
  [doctor_id |-> user.sub, date |-> date, time_slots |-> time_slots]

NewAppointment(user, doctor_id, appointment_date, appointment_time, reason) ==
  [patient_id       |-> user.sub,
   doctor_id        |-> doctor_id,
   appointment_date |-> appointment_date,
   appointment_time |-> appointment_time,
   reason           |-> reason,
   status           |-> "pending",
   doctor_notes     |-> NULL]

\* schema validation run by save(): reason is required; status is an enum
\* that is not required, and the enum validator passes an undefined value
Validates(a) == a.reason # "" /\ a.status \in Statuses \cup { NULL }

\* JavaScript truthiness of a string-or-absent body field
Truthy(v) == v # NULL /\ v # ""

\* save() of a loaded document writes the paths whose value was changed
SaveModified(stored, loaded, assigned) ==
  [stored EXCEPT
     !.status       = IF assigned.status # loaded.status
                        THEN assigned.status ELSE @,
     !.doctor_notes = IF assigned.doctor_notes # loaded.doctor_notes
                        THEN assigned.doctor_notes ELSE @]

-----------------------------------------------------------------------------
(* Decisions of the handlers, in the order the code takes them *)

\* the lookup keyed on a field the token does not carry the doctor's id in
PublishDecisionWrongKey(S, user, date) ==
  IF FindSchedule(S, user.role, date) # 0
    THEN Resp(400, "Schedule for this date already exists")
    ELSE Ok

\* POST /api/doctors/schedule: the lookup of an existing schedule
PublishDecision(S, user, date) ==
  IF FindSchedule(S, user.sub, date) # 0
    THEN Resp(400, "Schedule for this date already exists")
    ELSE Ok

\* POST /api/appointments: the doctor lookup
CreateDoctorDecision(U, doctor_id) ==
  IF FindDoctor(U, doctor_id) THEN Ok ELSE Resp(404, "Doctor not found")

\* POST /api/appointments: the schedule lookup and the slot test
CreateSlotDecision(S, doctor_id, appointment_date, appointment_time) ==
  LET i == FindSchedule(S, doctor_id, appointment_date)
  IN  IF i = 0
        THEN Resp(400, "Doctor not available on this date")
        ELSE IF ~slotAvailable(S[i], appointment_time)
          THEN Resp(400, "Time slot not available")
          ELSE Ok

\* POST /api/appointments: the lookup of an active appointment on the slot
CreateBookedDecision(A, doctor_id, appointment_date, appointment_time) ==
  IF FindBooked(A, doctor_id, appointment_date, appointment_time) # 0
    THEN Resp(400, "Time slot already booked")
    ELSE Ok

\* the authorization check without the doctor's ownership test
PatchAuthorizeAnyDoctor(user, appointment, status) ==
  IF user.role = "patient"
    THEN IF appointment.patient_id # user.sub
           THEN Resp(403, "Not authorized")
           ELSE IF status # "cancelled"
             THEN Resp(403, "Patients can only cancel appointments")
             ELSE Ok
    ELSE Ok

\* PATCH /api/appointments/:id: the authorization check on the loaded document
PatchAuthorize(user, appointment, status) ==
  IF user.role = "doctor"
    THEN IF appointment.doctor_id # user.sub
           THEN Resp(403, "Not authorized")
           ELSE Ok
    ELSE IF user.role = "patient"
      THEN IF appointment.patient_id # user.sub
             THEN Resp(403, "Not authorized")
             ELSE IF status # "cancelled"
               THEN Resp(403, "Patients can only cancel appointments")
               ELSE Ok
      ELSE Ok

\* PATCH /api/appointments/:id: the assignments to the loaded document
PatchAssign(appointment, status, doctor_notes) ==
  [appointment EXCEPT
     !.status       = status,
     !.doctor_notes = IF Truthy(doctor_notes) THEN doctor_notes ELSE @]

\* the cancel route without the ownership check
CancelAuthorizeAnyPatient(user, appointment) == Ok

\* DELETE /api/appointments/:id: the ownership check on the loaded document
CancelAuthorize(user, appointment) ==
  IF appointment.patient_id # user.sub
    THEN Resp(403, "Not authorized")
    ELSE Ok

CancelAssign(appointment) == [appointment EXCEPT !.status = "cancelled"]

-----------------------------------------------------------------------------
(* Requests.  Node serves the handlers on one thread and gives the event   *)
(* loop back at every await, so the store calls of requests in flight      *)
(* interleave.  A step of the model is one store call of one handler       *)
(* together with the synchronous code around it: the middleware and the    *)
(* code up to the first await run with the first store call, and the code  *)
(* after a store call runs with it, up to the next await or the answer.    *)
(* reqs[h] holds the locals of the request handler h is serving and, once  *)
(* it is answered, its response, until the next request is received.  ov   *)
(* is the set of handlers that served a request while this one was in      *)
(* flight.                                                                 *)

\* the caller of a route that takes no token
Anonymous == [sub |-> NULL, role |-> NULL]

Idle == [pc |-> "idle", ov |-> {}]

Init ==
  /\ users = Accounts
  /\ profiles = {}
  /\ schedules = << >>
  /\ appointments = << >>
  /\ reqs = [h \in Handlers |-> Idle]

InFlight(h) == reqs[h].pc \notin { "idle", "done" }

\* handler h receives a request; the answers of requests served earlier are
\* forgotten
Begin(h, req) ==
  [g \in Handlers |->
     IF g = h
       THEN [req EXCEPT !.ov = { k \in Handlers \ {h} : InFlight(k) }]
       ELSE IF InFlight(g)
         THEN [reqs[g] EXCEPT !.ov = @ \cup {h}]
         ELSE Idle]

\* the request is answered in the step that receives it
Answer(h, req, resp) == Begin(h, [req EXCEPT !.pc = "done", !.resp = resp])

Goto(h, pc) == [reqs EXCEPT ![h].pc = pc]

Finish(h, resp) == [reqs EXCEPT ![h].pc = "done", ![h].resp = resp]

-----------------------------------------------------------------------------
(* POST /api/doctors/schedule *)

\* requireDoctor, then DoctorSchedule.findOne
PublishRecv(h, user, date, time_slots) ==
  LET req  == [pc |-> "publish_save", op |-> "publish", user |-> user,
               date |-> date, time_slots |-> time_slots,
               ov |-> {}, resp |-> NoResp]
      resp == IF ~requireDoctor(user)
                THEN Resp(403, "Not authorized. Doctor access required.")
                ELSE PublishDecision(schedules, user, date)
  IN  /\ ~InFlight(h)
      /\ reqs' = IF resp = Ok THEN Begin(h, req) ELSE Answer(h, req, resp)
      /\ UNCHANGED <<users, profiles, schedules, appointments>>

\* schedule.save()
PublishSave(h) ==
  /\ reqs[h].pc = "publish_save"
  /\ schedules' = Append(schedules, NewSchedule(reqs[h].user, reqs[h].date,
                                                reqs[h].time_slots))
  /\ reqs' = Finish(h, Ok)
  /\ UNCHANGED <<users, profiles, appointments>>

-----------------------------------------------------------------------------
(* POST /api/appointments *)

CreatesInFlight ==
  Cardinality({ h \in Handlers : InFlight(h) /\ reqs[h].op = "create" })

\* requirePatient, then User.findOne({ id: doctor_id, role: 'doctor' }).
\* free records whether the slot was published and free when the request
\* arrived; no step reads it.
CreateRecv(h, user, doctor_id, appointment_date, appointment_time, reason) ==
  LET req  == [pc |-> "create_schedule", op |-> "create", user |-> user,
               doctor_id |-> doctor_id,
               appointment_date |-> appointment_date,
               appointment_time |-> appointment_time,
               reason |-> reason,
               free |-> /\ CreateSlotDecision(schedules, doctor_id,
                              appointment_date, appointment_time) = Ok
                        /\ CreateBookedDecision(appointments, doctor_id,
                              appointment_date, appointment_time) = Ok,
               ov |-> {}, resp |-> NoResp]
      resp == IF ~requirePatient(user)
                THEN Resp(403, "Not authorized. Patient access required.")
                ELSE CreateDoctorDecision(users, doctor_id)
  IN  /\ ~InFlight(h)
      /\ Len(appointments) + CreatesInFlight < MaxAppointments
      /\ reqs' = IF resp = Ok THEN Begin(h, req) ELSE Answer(h, req, resp)
      /\ UNCHANGED <<users, profiles, schedules, appointments>>

\* DoctorSchedule.findOne and the slot test
CreateSchedule(h) ==
  LET r    == reqs[h]
      resp == CreateSlotDecision(schedules, r.doctor_id, r.appointment_date,
                                 r.appointment_time)
  IN  /\ r.pc = "create_schedule"
      /\ reqs' = IF resp = Ok THEN Goto(h, "create_booked")
                              ELSE Finish(h, resp)
      /\ UNCHANGED <<users, profiles, schedules, appointments>>

\* Appointment.findOne, new Appointment, and the validation that save() runs
\* before it writes
CreateBooked(h) ==
  LET r    == reqs[h]
      doc  == NewAppointment(r.user, r.doctor_id, r.appointment_date,
                             r.appointment_time, r.reason)
      c3   == CreateBookedDecision(appointments, r.doctor_id,
                                   r.appointment_date, r.appointment_time)
      resp == IF c3 # Ok THEN c3
              ELSE IF ~Validates(doc)
                THEN Resp(500, "Failed to create appointment")
                ELSE Ok
  IN  /\ r.pc = "create_booked"
      /\ reqs' = IF resp = Ok THEN Goto(h, "create_save")
                              ELSE Finish(h, resp)
      /\ UNCHANGED <<users, profiles, schedules, appointments>>

\* the save that also flags the booked slot unavailable in the schedule
CreateSaveFlaggingSlot(h) ==
  LET r == reqs[h]
      i == FindSchedule(schedules, r.doctor_id, r.appointment_date)
      flag(slot) == IF slot.start_time = r.appointment_time
                      THEN [slot EXCEPT !.is_available = FALSE] ELSE slot
  IN  /\ r.pc = "create_save"
      /\ appointments' =
           Append(appointments,
                  NewAppointment(r.user, r.doctor_id, r.appointment_date,
                                 r.appointment_time, r.reason))
      /\ schedules' = IF i = 0 THEN schedules
                      ELSE [schedules EXCEPT ![i].time_slots =
                              [k \in DOMAIN @ |-> flag(@[k])]]
      /\ reqs' = Finish(h, Ok)
      /\ UNCHANGED <<users, profiles>>

\* appointment.save()
CreateSave(h) ==
  LET r == reqs[h]
  IN  /\ r.pc = "create_save"
      /\ appointments' =
           Append(appointments,
                  NewAppointment(r.user, r.doctor_id, r.appointment_date,
                                 r.appointment_time, r.reason))
      /\ reqs' = Finish(h, Ok)
      /\ UNCHANGED <<users, profiles, schedules>>

-----------------------------------------------------------------------------
(* PATCH /api/appointments/:appointment_id *)

\* Appointment.findOne, the authorization check, the assignments, and the
\* validation that save() runs before it writes
PatchDecision(A, user, appointment_id, status, doctor_notes) ==
  LET i        == FindAppointment(A, appointment_id)
      loaded   == A[i]
      auth     == PatchAuthorize(user, loaded, status)
      assigned == PatchAssign(loaded, status, doctor_notes)
      resp     == IF i = 0 THEN Resp(404, "Appointment not found")
                  ELSE IF auth # Ok THEN auth
                  ELSE IF ~Validates(assigned)
                    THEN Resp(500, "Failed to update appointment")
                    ELSE Ok
  IN  [resp     |-> resp,
       loaded   |-> IF i = 0 THEN NULL ELSE loaded,
       assigned |-> IF i = 0 THEN NULL ELSE assigned]

\* the handler that writes its assignments before the validation refuses them
PatchRecvWritingUnvalidated(h, user, appointment_id, status, doctor_notes) ==
  LET d   == PatchDecision(appointments, user, appointment_id, status,
                           doctor_notes)
      req == [pc |-> "patch_save", op |-> "updateStatus", user |-> user,
              appointment_id |-> appointment_id, status |-> status,
              doctor_notes |-> doctor_notes,
              loaded |-> d.loaded, assigned |-> d.assigned,
              ov |-> {}, resp |-> NoResp]
  IN  /\ ~InFlight(h)
      /\ reqs' = IF d.resp = Ok THEN Begin(h, req) ELSE Answer(h, req, d.resp)
      /\ appointments' =
           IF d.resp.code = 500
             THEN [appointments EXCEPT ![appointment_id] =
                     SaveModified(@, d.loaded, d.assigned)]
             ELSE appointments
      /\ UNCHANGED <<users, profiles, schedules>>

PatchRecv(h, user, appointment_id, status, doctor_notes) ==
  LET d   == PatchDecision(appointments, user, appointment_id, status,
                           doctor_notes)
      req == [pc |-> "patch_save", op |-> "updateStatus", user |-> user,
              appointment_id |-> appointment_id, status |-> status,
              doctor_notes |-> doctor_notes,
              loaded |-> d.loaded, assigned |-> d.assigned,
              ov |-> {}, resp |-> NoResp]
  IN  /\ ~InFlight(h)
      /\ reqs' = IF d.resp = Ok THEN Begin(h, req) ELSE Answer(h, req, d.resp)
      /\ UNCHANGED <<users, profiles, schedules, appointments>>

\* appointment.save(): writes the paths the handler changed
PatchSave(h) ==
  LET r == reqs[h]
  IN  /\ r.pc = "patch_save"
      /\ appointments' = [appointments EXCEPT ![r.appointment_id] =
                            SaveModified(@, r.loaded, r.assigned)]
      /\ reqs' = Finish(h, Ok)
      /\ UNCHANGED <<users, profiles, schedules>>

-----------------------------------------------------------------------------
(* DELETE /api/appointments/:appointment_id *)

\* requirePatient, Appointment.findOne, the ownership check, the assignment
CancelDecision(A, user, appointment_id) ==
  LET i        == FindAppointment(A, appointment_id)
      loaded   == A[i]
      resp     == IF ~requirePatient(user)
                    THEN Resp(403, "Not authorized. Patient access required.")
                  ELSE IF i = 0 THEN Resp(404, "Appointment not found")
                  ELSE CancelAuthorize(user, loaded)
  IN  [resp     |-> resp,
       loaded   |-> IF i = 0 THEN NULL ELSE loaded,
       assigned |-> IF i = 0 THEN NULL ELSE CancelAssign(loaded)]

CancelRecv(h, user, appointment_id) ==
  LET d   == CancelDecision(appointments, user, appointment_id)
      req == [pc |-> "cancel_save", op |-> "cancel", user |-> user,
              appointment_id |-> appointment_id, status |-> "cancelled",
              loaded |-> d.loaded, assigned |-> d.assigned,
              ov |-> {}, resp |-> NoResp]
  IN  /\ ~InFlight(h)
      /\ reqs' = IF d.resp = Ok THEN Begin(h, req) ELSE Answer(h, req, d.resp)
      /\ UNCHANGED <<users, profiles, schedules, appointments>>

\* appointment.save()
CancelSave(h) ==
  LET r == reqs[h]
  IN  /\ r.pc = "cancel_save"
      /\ appointments' = [appointments EXCEPT ![r.appointment_id] =
                            SaveModified(@, r.loaded, r.assigned)]
      /\ reqs' = Finish(h, Ok)
      /\ UNCHANGED <<users, profiles, schedules>>

-----------------------------------------------------------------------------
(* GET /api/doctors/:doctor_id/available-slots (no authentication) *)

\* DoctorSchedule.findOne; without a schedule the answer is the empty list
SlotsRecv(h, doctor_id, date) ==
  LET i   == FindSchedule(schedules, doctor_id, date)
      req == [pc |-> "slots_find", op |-> "freeSlots", user |-> Anonymous,
              doctor_id |-> doctor_id, date |-> date,
              time_slots |-> IF i = 0 THEN << >> ELSE schedules[i].time_slots,
              slots |-> << >>, ov |-> {}, resp |-> NoResp]
  IN  /\ ~InFlight(h)
      /\ reqs' = IF i = 0 THEN Answer(h, req, Ok) ELSE Begin(h, req)
      /\ UNCHANGED <<users, profiles, schedules, appointments>>

\* Appointment.find of the active appointments, then the filter
SlotsFind(h) ==
  LET r == reqs[h]
  IN  /\ r.pc = "slots_find"
      /\ reqs' = [reqs EXCEPT
                    ![h].pc = "done",
                    ![h].resp = Ok,
                    ![h].slots = availableSlots(r.time_slots,
                                   bookedTimes(appointments, r.doctor_id,
                                               r.date))]
      /\ UNCHANGED <<users, profiles, schedules, appointments>>

-----------------------------------------------------------------------------
(* DELETE /api/admin/users/:id *)

\* Appointment.updateMany({ doctor_id: id }, { doctor_id: 'DELETED' })
updateManyDoctor(A, id) ==
  [i \in DOMAIN A |->
     [A[i] EXCEPT !.doctor_id = IF @ = id THEN "DELETED" ELSE @]]

\* Appointment.updateMany({ patient_id: id }, { patient_id: 'DELETED' })
updateManyPatient(A, id) ==
  [i \in DOMAIN A |->
     [A[i] EXCEPT !.patient_id = IF @ = id THEN "DELETED" ELSE @]]

\* DoctorProfile.deleteMany({ doctor_id: id }): the schema names the field
\* user_id, so the filter names no path of the schema.  With strictQuery on,
\* Mongoose strips the unknown path and the empty filter deletes every
\* profile; with strictQuery off no document has the field and none is
\* deleted.  The Mongoose version decides which.
deleteManyByDoctorId(P, strictQuery) == IF strictQuery THEN {} ELSE P

\* requireAdmin, User.findOne, the refusal to delete an admin
DeleteDecision(U, user, id) ==
  IF ~requireAdmin(user)
    THEN Resp(403, "Not authorized. Admin access required.")
  ELSE IF ~FindUser(U, id) THEN Resp(404, "User not found")
  ELSE IF (CHOOSE u \in U : u.id = id).role = "admin"
    THEN Resp(403, "Cannot delete admin accounts")
    ELSE Ok

DeleteRecv(h, user, id) ==
  LET resp == DeleteDecision(users, user, id)
      req  == [pc |-> "delete_user", op |-> "deleteUser", user |-> user,
               id |-> id,
               role |-> IF resp = Ok
                          THEN (CHOOSE u \in users : u.id = id).role
                          ELSE NULL,
               ov |-> {}, resp |-> NoResp]
  IN  /\ ~InFlight(h)
      /\ reqs' = IF resp = Ok THEN Begin(h, req) ELSE Answer(h, req, resp)
      /\ UNCHANGED <<users, profiles, schedules, appointments>>

\* User.deleteOne({ id })
DeleteUserDoc(h) ==
  LET r == reqs[h]
  IN  /\ r.pc = "delete_user"
      /\ users' = { u \in users : u.id # r.id }
      /\ reqs' = Goto(h, IF r.role = "doctor" THEN "delete_profiles"
                                              ELSE "mark_doctor")
      /\ UNCHANGED <<profiles, schedules, appointments>>

DeleteProfiles(h, strictQuery) ==
  /\ reqs[h].pc = "delete_profiles"
  /\ profiles' = deleteManyByDoctorId(profiles, strictQuery)
  /\ reqs' = Goto(h, "delete_schedules")
  /\ UNCHANGED <<users, schedules, appointments>>

\* DoctorSchedule.deleteMany({ doctor_id: id })
DeleteSchedules(h) ==
  LET r == reqs[h]
      other(schedule) == schedule.doctor_id # r.id
  IN  /\ r.pc = "delete_schedules"
      /\ schedules' = SelectSeq(schedules, other)
      /\ reqs' = Goto(h, "mark_doctor")
      /\ UNCHANGED <<users, profiles, appointments>>

MarkDoctor(h) ==
  /\ reqs[h].pc = "mark_doctor"
  /\ appointments' = updateManyDoctor(appointments, reqs[h].id)
  /\ reqs' = Goto(h, "mark_patient")
  /\ UNCHANGED <<users, profiles, schedules>>

MarkPatient(h) ==
  /\ reqs[h].pc = "mark_patient"
  /\ appointments' = updateManyPatient(appointments, reqs[h].id)
  /\ reqs' = Finish(h, Ok)
  /\ UNCHANGED <<users, profiles, schedules>>

-----------------------------------------------------------------------------
(* POST /api/doctors/profile.  profiles is the set of the user_id values   *)
(* of the stored DoctorProfile documents.                                  *)

\* requireDoctor, then DoctorProfile.findOne({ user_id })
ProfileDecision(P, user) ==
  IF ~requireDoctor(user)
    THEN Resp(403, "Not authorized. Doctor access required.")
  ELSE IF user.sub \in P
    THEN Resp(400, "Doctor profile already exists")
    ELSE Ok

ProfileRecv(h, user) ==
  LET resp == ProfileDecision(profiles, user)
      req  == [pc |-> "profile_save", op |-> "createProfile", user |-> user,
               ov |-> {}, resp |-> NoResp]
  IN  /\ ~InFlight(h)
      /\ reqs' = IF resp = Ok THEN Begin(h, req) ELSE Answer(h, req, resp)
      /\ UNCHANGED <<users, profiles, schedules, appointments>>

\* profile.save(); the unique index on user_id refuses a second profile
ProfileSave(h) ==
  LET r == reqs[h]
  IN  /\ r.pc = "profile_save"
      /\ IF r.user.sub \in profiles
           THEN /\ reqs' = Finish(h, Resp(500, "Failed to create profile"))
                /\ UNCHANGED profiles
           ELSE /\ reqs' = Finish(h, Ok)
                /\ profiles' = profiles \cup { r.user.sub }
      /\ UNCHANGED <<users, schedules, appointments>>

-----------------------------------------------------------------------------
(* GET /api/appointments/my-appointments and GET /api/admin/all-appointments *)
(* An appointment in the answer is modelled by its position in the store.  *)

\* the dates of the model in ascending order of their strings, which is the
\* order the store compares the String field appointment_date in
DateOrder == << "2025-06-01", "2025-06-02" >>

dateRank(date) == CHOOSE n \in DOMAIN DateOrder : DateOrder[n] = date

\* one document put in its place among documents sorted latest date first,
\* after those of the same date
insertByDateDesc(sorted, doc) ==
  LET n == Cardinality({ i \in DOMAIN sorted :
                           dateRank(sorted[i].appointment_date)
                             >= dateRank(doc.appointment_date) })
  IN  SubSeq(sorted, 1, n) \o << doc >> \o SubSeq(sorted, n + 1, Len(sorted))

RECURSIVE sortByDateDesc(_)
\* .sort({ appointment_date: -1 }): latest date first, documents of one date
\* in the order the store returns them
sortByDateDesc(docs) ==
  IF docs = << >>
    THEN << >>
    ELSE insertByDateDesc(sortByDateDesc(SubSeq(docs, 1, Len(docs) - 1)),
                          docs[Len(docs)])

\* Appointment.find(query).sort({ appointment_date: -1 }): the documents as
\* they are read
Found(A, matching) ==
  LET hit(a) == matching[a.id]
  IN  sortByDateDesc(
        SelectSeq([i \in DOMAIN A |->
                     [id |-> i, patient_id |-> A[i].patient_id,
                      doctor_id |-> A[i].doctor_id,
                      appointment_date |-> A[i].appointment_date]], hit))

\* my-appointments: the query on patient_id for a patient, on doctor_id for
\* every other role
MyQuery(A, user) ==
  [i \in DOMAIN A |->
     IF user.role = "patient" THEN A[i].patient_id = user.sub
                              ELSE A[i].doctor_id = user.sub]

Listing(op, user, found) ==
  [pc |-> "list_patient", op |-> op, user |-> user, found |-> found,
   k |-> 1, patient |-> FALSE, doctor |-> FALSE, result |-> << >>,
   ov |-> {}, resp |-> NoResp]

ListRecv(h, user) ==
  LET req == Listing("listMine", user,
                     Found(appointments, MyQuery(appointments, user)))
  IN  /\ ~InFlight(h)
      /\ reqs' = IF req.found = << >> THEN Answer(h, req, Ok)
                                      ELSE Begin(h, req)
      /\ UNCHANGED <<users, profiles, schedules, appointments>>

\* User.findOne({ id: apt.patient_id })
ListPatient(h) ==
  LET r == reqs[h]
  IN  /\ r.pc = "list_patient"
      /\ reqs' = [reqs EXCEPT
                    ![h].pc = "list_doctor",
                    ![h].patient = FindUser(users, r.found[r.k].patient_id)]
      /\ UNCHANGED <<users, profiles, schedules, appointments>>

\* User.findOne({ id: apt.doctor_id })
ListDoctor(h) ==
  LET r == reqs[h]
  IN  /\ r.pc = "list_doctor"
      /\ reqs' = [reqs EXCEPT
                    ![h].pc = "list_profile",
                    ![h].doctor = FindUser(users, r.found[r.k].doctor_id)]
      /\ UNCHANGED <<users, profiles, schedules, appointments>>

\* DoctorProfile.findOne({ user_id: apt.doctor_id }); the appointment is
\* pushed only if patient, doctor and profile were all found
ListProfile(h) ==
  LET r    == reqs[h]
      apt  == r.found[r.k]
      push == r.patient /\ r.doctor /\ apt.doctor_id \in profiles
  IN  /\ r.pc = "list_profile"
      /\ reqs' = [reqs EXCEPT
                    ![h].result = IF push THEN Append(@, apt.id) ELSE @,
                    ![h].k = r.k + 1,
                    ![h].pc = IF r.k = Len(r.found) THEN "done"
                                                    ELSE "list_patient",
                    ![h].resp = IF r.k = Len(r.found) THEN Ok ELSE NoResp]
      /\ UNCHANGED <<users, profiles, schedules, appointments>>

-----------------------------------------------------------------------------
(* GET under /api/admin/ *)

\* a registered route: what it matches and whether requireAdmin guards it
Route(method, path, admin, handler) ==
  [method |-> method, path |-> path, requireAdmin |-> admin,
   handler |-> handler]

\* the routes under /api/admin/, in the order server.js registers them
adminRoutes ==
  << Route("GET", "/api/admin/stats", FALSE, "stats"),
     Route("GET", "/api/admin/users", FALSE, "users"),
     Route("GET", "/api/admin/all-appointments", FALSE, "all-appointments"),
     Route("GET", "/api/admin/stats", TRUE, "stats"),
     Route("GET", "/api/admin/users", TRUE, "users"),
     Route("GET", "/api/admin/users/:id", TRUE, "user"),
     Route("DELETE", "/api/admin/users/:id", TRUE, "deleteUser"),
     Route("GET", "/api/admin/appointments", TRUE, "appointments") >>

\* Express hands the request to the first registered route that matches;
\* none of these handlers passes it on
dispatch(method, path) ==
  findOne({ i \in DOMAIN adminRoutes :
              adminRoutes[i].method = method /\ adminRoutes[i].path = path })

\* the countDocuments calls of GET /api/admin/stats, in the order of the code
statsCount(U, A, k) ==
  CASE k = 1 -> Cardinality(U)
    [] k = 2 -> Cardinality({ u \in U : u.role = "patient" })
    [] k = 3 -> Cardinality({ u \in U : u.role = "doctor" })
    [] k = 4 -> Len(A)
    [] k = 5 -> Cardinality({ i \in DOMAIN A : A[i].status = "pending" })
    [] k = 6 -> Cardinality({ i \in DOMAIN A : A[i].status = "confirmed" })
    [] k = 7 -> Cardinality({ i \in DOMAIN A : A[i].status = "completed" })
    [] k = 8 -> Cardinality({ i \in DOMAIN A : A[i].status = "cancelled" })

\* the middleware of the route, then the first store call of its handler.
\* The bodies of GET /api/admin/users/:id and GET /api/admin/appointments,
\* which only an admin reaches, are outside the model.
AdminGetRecv(h, user, path) ==
  LET n      == dispatch("GET", path)
      route  == adminRoutes[n]
      all    == [i \in DOMAIN appointments |-> TRUE]
      req    == [Listing("adminGet", user, Found(appointments, all))
                   EXCEPT !.pc = "stats"]
                  @@ [path |-> path, route |-> n, counts |-> << >>,
                      listed |-> {}]
  IN  /\ ~InFlight(h)
      /\ n # 0
      /\ ~(route.requireAdmin /\ requireAdmin(user))
      /\ reqs' =
           IF route.requireAdmin
             THEN Answer(h, req,
                         Resp(403, "Not authorized. Admin access required."))
           ELSE IF route.handler = "stats"
             THEN Begin(h, [req EXCEPT
                              !.k = 2,
                              !.counts = << statsCount(users, appointments, 1) >>])
           ELSE IF route.handler = "users"
             THEN Answer(h, [req EXCEPT !.listed = { u.id : u \in users }], Ok)
           ELSE IF req.found = << >>
             THEN Answer(h, req, Ok)
             ELSE Begin(h, [req EXCEPT !.pc = "list_patient"])
      /\ UNCHANGED <<users, profiles, schedules, appointments>>

\* GET /api/admin/stats: the next countDocuments; the answer after the last
StatsCount(h) ==
  LET r == reqs[h]
  IN  /\ r.pc = "stats"
      /\ reqs' = [reqs EXCEPT
                    ![h].counts = Append(@, statsCount(users, appointments, r.k)),
                    ![h].k = r.k + 1,
                    ![h].pc = IF r.k = 8 THEN "done" ELSE "stats",
                    ![h].resp = IF r.k = 8 THEN Ok ELSE NoResp]
      /\ UNCHANGED <<users, profiles, schedules, appointments>>

-----------------------------------------------------------------------------
(* A request served alone: the answer of a handler and the store it leaves *)
(* when no store call of another request falls between its own, composed   *)
(* from the decisions and the writes of its steps.                         *)

\* POST /api/doctors/schedule
PublishOutcome(S, user, date, time_slots) ==
  LET resp == IF ~requireDoctor(user)
                THEN Resp(403, "Not authorized. Doctor access required.")
                ELSE PublishDecision(S, user, date)
  IN  [resp      |-> resp,
       schedules |-> IF resp = Ok
                       THEN Append(S, NewSchedule(user, date, time_slots))
                       ELSE S]

\* POST /api/appointments
CreateOutcome(U, S, A, user, doctor_id, appointment_date, appointment_time, reason) ==
  LET doc  == NewAppointment(user, doctor_id, appointment_date,
                             appointment_time, reason)
      c1   == CreateDoctorDecision(U, doctor_id)
      c2   == CreateSlotDecision(S, doctor_id, appointment_date,
                                 appointment_time)
      c3   == CreateBookedDecision(A, doctor_id, appointment_date,
                                   appointment_time)
      resp == IF ~requirePatient(user)
                THEN Resp(403, "Not authorized. Patient access required.")
                ELSE IF c1 # Ok THEN c1
                ELSE IF c2 # Ok THEN c2
                ELSE IF c3 # Ok THEN c3
                ELSE IF ~Validates(doc)
                  THEN Resp(500, "Failed to create appointment")
                  ELSE Ok
  IN  [resp         |-> resp,
       appointments |-> IF resp = Ok THEN Append(A, doc) ELSE A]

\* PATCH /api/appointments/:appointment_id
PatchOutcome(A, user, appointment_id, status, doctor_notes) ==
  LET d == PatchDecision(A, user, appointment_id, status, doctor_notes)
  IN  [resp         |-> d.resp,
       appointments |-> IF d.resp = Ok
                          THEN [A EXCEPT ![appointment_id] =
                                  SaveModified(@, d.loaded, d.assigned)]
                          ELSE A]

\* DELETE /api/appointments/:appointment_id
CancelOutcome(A, user, appointment_id) ==
  LET d == CancelDecision(A, user, appointment_id)
  IN  [resp         |-> d.resp,
       appointments |-> IF d.resp = Ok
                          THEN [A EXCEPT ![appointment_id] =
                                  SaveModified(@, d.loaded, d.assigned)]
                          ELSE A]

\* GET /api/doctors/:doctor_id/available-slots
AvailableSlotsOutcome(S, A, doctor_id, date) ==
  LET i == FindSchedule(S, doctor_id, date)
  IN  [resp  |-> Ok,
       date  |-> date,
       slots |-> IF i = 0
                   THEN << >>
                   ELSE availableSlots(S[i].time_slots,
                                       bookedTimes(A, doctor_id, date))]

-----------------------------------------------------------------------------
(* The booking routes: publish, create, updateStatus, cancel and the       *)
(* free-slot query, their store calls interleaving.                        *)

Publishers == { t \in Tokens : t.sub \in { "d1" } }

\* a schedule with two available slots and one flagged unavailable
PublishLists ==
  { << Slot("08:30", "09:00", TRUE), Slot("09:00", "09:30", TRUE),
       Slot("09:30", "10:00", FALSE) >> }

\* callers of create: two patients and a doctor
Creators == { t \in Tokens : t.sub \in { "p1", "p2", "d1" } }

CreateDoctorIds == { "d1" }

CreateReasons == { "checkup" }

Updaters == { t \in Tokens : t.sub \in { "d1" } }

\* two statuses of the enum, one outside it, and a body without status
UpdateStatuses == { "confirmed", "completed", "archived", NULL }

UpdateNotes == { "" }

Cancellers == { t \in Tokens : t.sub \in { "p1", "p2" } }

SlotsDoctorIds == { "d1" }

Next ==
  \E h \in Handlers :
    \/ \E user \in Publishers, date \in Dates, time_slots \in PublishLists :
         PublishRecv(h, user, date, time_slots)
    \/ PublishSave(h)
    \/ \E user \in Creators, doctor_id \in CreateDoctorIds, date \in Dates,
          time \in Times, reason \in CreateReasons :
         CreateRecv(h, user, doctor_id, date, time, reason)
    \/ CreateSchedule(h)
    \/ CreateBooked(h)
    \/ CreateSave(h)
    \/ \E user \in Updaters, appointment_id \in AppointmentIds,
          status \in UpdateStatuses, doctor_notes \in UpdateNotes :
         PatchRecv(h, user, appointment_id, status, doctor_notes)
    \/ PatchSave(h)
    \/ \E user \in Cancellers, appointment_id \in AppointmentIds :
         CancelRecv(h, user, appointment_id)
    \/ CancelSave(h)
    \/ \E doctor_id \in SlotsDoctorIds, date \in Dates :
         SlotsRecv(h, doctor_id, date)
    \/ SlotsFind(h)

Spec == Init /\ [][Next]_vars

-----------------------------------------------------------------------------
(* The same routes with the inputs of the races: one doctor, one slot, two *)
(* patients.                                                               *)

ConcPublishers == { t \in Tokens : t.sub \in { "d1" } }

ConcSlotLists == { << Slot("09:00", "09:30", TRUE) >> }

ConcPatients == { t \in Tokens : t.sub \in { "p1", "p2" } }

ConcDoctorIds == { "d1" }

ConcTimes == { "09:00" }

ConcReasons == { "checkup" }

ConcUpdaters == { t \in Tokens : t.sub \in { "p1", "d1" } }

ConcStatuses == { "confirmed", "cancelled" }

ConcNotes == { "" }

NextConc ==
  \E h \in Handlers :
    \/ \E user \in ConcPublishers, date \in Dates, time_slots \in ConcSlotLists :
         PublishRecv(h, user, date, time_slots)
    \/ PublishSave(h)
    \/ \E user \in ConcPatients, doctor_id \in ConcDoctorIds, date \in Dates,
          time \in ConcTimes, reason \in ConcReasons :
         CreateRecv(h, user, doctor_id, date, time, reason)
    \/ CreateSchedule(h)
    \/ CreateBooked(h)
    \/ CreateSave(h)
    \/ \E user \in ConcUpdaters, appointment_id \in AppointmentIds,
          status \in ConcStatuses, doctor_notes \in ConcNotes :
         PatchRecv(h, user, appointment_id, status, doctor_notes)
    \/ PatchSave(h)
    \/ \E user \in ConcPatients, appointment_id \in AppointmentIds :
         CancelRecv(h, user, appointment_id)
    \/ CancelSave(h)

SpecConc == Init /\ [][NextConc]_vars

-----------------------------------------------------------------------------
(* The administrative deletion of users next to publish, create and        *)
(* cancel.                                                                 *)

AdminPublishers == { t \in Tokens : t.sub \in { "d1" } }

\* one slot, the slots the dashboard generates, and two slots out of order
AdminSlotLists ==
  { << Slot("09:00", "09:30", TRUE) >>,
    generateTimeSlots,
    << Slot("09:30", "10:00", TRUE), Slot("09:00", "09:30", TRUE) >> }

AdminPatients == { t \in Tokens : t.sub \in { "p1" } }

AdminDeleters == { t \in Tokens : t.sub \in { "a1", "d1" } }

NextAdmin ==
  \E h \in Handlers :
    \/ \E user \in AdminPublishers, date \in Dates, time_slots \in AdminSlotLists :
         PublishRecv(h, user, date, time_slots)
    \/ PublishSave(h)
    \/ \E user \in AdminPatients, date \in Dates :
         CreateRecv(h, user, "d1", date, "09:00", "checkup")
    \/ CreateSchedule(h)
    \/ CreateBooked(h)
    \/ CreateSave(h)
    \/ \E user \in AdminPatients, appointment_id \in AppointmentIds :
         CancelRecv(h, user, appointment_id)
    \/ CancelSave(h)
    \/ \E user \in AdminDeleters, id \in DeleteUserIds : DeleteRecv(h, user, id)
    \/ DeleteUserDoc(h)
    \/ \E strictQuery \in BOOLEAN : DeleteProfiles(h, strictQuery)
    \/ DeleteSchedules(h)
    \/ MarkDoctor(h)
    \/ MarkPatient(h)

SpecAdmin == Init /\ [][NextAdmin]_vars

-----------------------------------------------------------------------------
(* Every operation on a stored appointment: create, updateStatus, cancel   *)
(* and the administrative deletion of users, for one patient, one doctor   *)
(* and one slot.                                                           *)

RecordsPatients == { t \in Tokens : t.sub \in { "p1" } }

RecordsUpdaters == { t \in Tokens : t.sub \in { "d1" } }

RecordsStatuses == { "confirmed" }

RecordsDeleters == { t \in Tokens : t.sub \in { "a1" } }

NextRecords ==
  \E h \in Handlers :
    \/ \E user \in ConcPublishers, date \in Dates, time_slots \in ConcSlotLists :
         PublishRecv(h, user, date, time_slots)
    \/ PublishSave(h)
    \/ \E user \in RecordsPatients, date \in Dates :
         CreateRecv(h, user, "d1", date, "09:00", "checkup")
    \/ CreateSchedule(h)
    \/ CreateBooked(h)
    \/ CreateSave(h)
    \/ \E user \in RecordsUpdaters, appointment_id \in AppointmentIds,
          status \in RecordsStatuses :
         PatchRecv(h, user, appointment_id, status, "")
    \/ PatchSave(h)
    \/ \E user \in RecordsPatients, appointment_id \in AppointmentIds :
         CancelRecv(h, user, appointment_id)
    \/ CancelSave(h)
    \/ \E user \in RecordsDeleters, id \in DeleteUserIds : DeleteRecv(h, user, id)
    \/ DeleteUserDoc(h)
    \/ \E strictQuery \in BOOLEAN : DeleteProfiles(h, strictQuery)
    \/ DeleteSchedules(h)
    \/ MarkDoctor(h)
    \/ MarkPatient(h)

SpecRecords == Init /\ [][NextRecords]_vars

-----------------------------------------------------------------------------
(* The doctor profiles, the listings of appointments and the GET routes    *)
(* under /api/admin/, next to publish and create.                          *)

\* two dates, so that the listings sort
ListingDates == { "2025-06-01", "2025-06-02" }

ListingPatients == { t \in Tokens : t.sub \in { "p1" } }

ProfileCallers == { t \in Tokens : t.sub \in { "d1", "p1" } }

ListingCallers == { t \in Tokens : t.sub \in { "p1", "d1" } }

AdminCallers == { t \in Tokens : t.sub \in { "p1" } }

AdminPaths ==
  { "/api/admin/stats", "/api/admin/users", "/api/admin/all-appointments",
    "/api/admin/users/:id", "/api/admin/appointments" }

NextListing ==
  \E h \in Handlers :
    \/ \E user \in ConcPublishers, date \in ListingDates, time_slots \in ConcSlotLists :
         PublishRecv(h, user, date, time_slots)
    \/ PublishSave(h)
    \/ \E user \in ListingPatients, date \in ListingDates :
         CreateRecv(h, user, "d1", date, "09:00", "checkup")
    \/ CreateSchedule(h)
    \/ CreateBooked(h)
    \/ CreateSave(h)
    \/ \E user \in ProfileCallers : ProfileRecv(h, user)
    \/ ProfileSave(h)
    \/ \E user \in ListingCallers : ListRecv(h, user)
    \/ ListPatient(h)
    \/ ListDoctor(h)
    \/ ListProfile(h)
    \/ \E user \in AdminCallers, path \in AdminPaths : AdminGetRecv(h, user, path)
    \/ StatsCount(h)

SpecListing == Init /\ [][NextListing]_vars

-----------------------------------------------------------------------------
(* Registration (POST /api/auth/register) next to the administrative       *)
(* deletion of users.  A stored user carries the username, email and codes *)
(* the handler gave it.                                                    *)

Usernames == { "ann", "bob" }

Emails == { "ann@x", "bob@x" }

RegisterRoles == { "patient", "doctor" }

\* the values generateUUID returns: one that no stored user has
UserUuids == { "u" \o ToString(n) : n \in 1..MaxUsers }

AdminAccount ==
  [id |-> "a1", username |-> "admin", email |-> "admin@x", role |-> "admin",
   patient_code |-> NULL, doctor_code |-> NULL]

InitRegister ==
  /\ users = { AdminAccount }
  /\ profiles = {}
  /\ schedules = << >>
  /\ appointments = << >>
  /\ reqs = [h \in Handlers |-> Idle]

countDocuments(U, role) == Cardinality({ u \in U : u.role = role })

\* utils/helpers.js
generatePatientCode(U) ==
  "BN-" \o padStart(ToString(countDocuments(U, "patient") + 1), 5)

generateDoctorCode(U) ==
  "BS-" \o padStart(ToString(countDocuments(U, "doctor") + 1), 5)

RegistersInFlight ==
  Cardinality({ h \in Handlers : InFlight(h) /\ reqs[h].op = "register" })

\* register: User.findOne({ username })
RegisterRecv(h, username, email, role) ==
  LET req == [pc |-> "register_email", op |-> "register",
              username |-> username, email |-> email, role |-> role,
              patient_code |-> NULL, doctor_code |-> NULL,
              ov |-> {}, resp |-> NoResp]
  IN  /\ ~InFlight(h)
      /\ Cardinality(users) - 1 + RegistersInFlight < MaxUsers
      /\ reqs' = IF \E u \in users : u.username = username
                   THEN Answer(h, req, Resp(400, "Username already exists"))
                   ELSE Begin(h, req)
      /\ UNCHANGED <<users, profiles, schedules, appointments>>

\* register: User.findOne({ email })
RegisterEmail(h) ==
  /\ reqs[h].pc = "register_email"
  /\ reqs' = IF \E u \in users : u.email = reqs[h].email
               THEN Finish(h, Resp(400, "Email already exists"))
               ELSE Goto(h, "register_code")
  /\ UNCHANGED <<users, profiles, schedules, appointments>>

\* register: the password hash, then generatePatientCode / generateDoctorCode
RegisterCode(h) ==
  /\ reqs[h].pc = "register_code"
  /\ reqs' = [reqs EXCEPT
                ![h].pc = "register_save",
                ![h].patient_code = IF reqs[h].role = "patient"
                                      THEN generatePatientCode(users) ELSE NULL,
                ![h].doctor_code  = IF reqs[h].role = "doctor"
                                      THEN generateDoctorCode(users) ELSE NULL]
  /\ UNCHANGED <<users, profiles, schedules, appointments>>

\* register: new User({ id: generateUUID(), ... }) and user.save(); the
\* unique indexes on username and email refuse a duplicate
RegisterSave(h) ==
  LET r == reqs[h]
  IN  /\ r.pc = "register_save"
      /\ IF \E u \in users : u.username = r.username \/ u.email = r.email
           THEN /\ reqs' = Finish(h, Resp(500, "Registration failed"))
                /\ UNCHANGED users
           ELSE \E id \in UserUuids :
                  /\ \A u \in users : u.id # id
                  /\ users' = users \cup
                       { [id |-> id, username |-> r.username,
                          email |-> r.email, role |-> r.role,
                          patient_code |-> r.patient_code,
                          doctor_code |-> r.doctor_code] }
                  /\ reqs' = Finish(h, Ok)
      /\ UNCHANGED <<profiles, schedules, appointments>>

RegisterDeleters == { t \in Tokens : t.sub \in { "a1" } }

NextRegister ==
  \E h \in Handlers :
    \/ \E username \in Usernames, email \in Emails, role \in RegisterRoles :
         RegisterRecv(h, username, email, role)
    \/ RegisterEmail(h)
    \/ RegisterCode(h)
    \/ RegisterSave(h)
    \/ \E user \in RegisterDeleters, id \in UserUuids : DeleteRecv(h, user, id)
    \/ DeleteUserDoc(h)
    \/ \E strictQuery \in BOOLEAN : DeleteProfiles(h, strictQuery)
    \/ DeleteSchedules(h)
    \/ MarkDoctor(h)
    \/ MarkPatient(h)

SpecRegister == InitRegister /\ [][NextRegister]_vars

-----------------------------------------------------------------------------
(* Vocabulary of the properties *)

SameSlot(a, b) ==
  /\ a.doctor_id = b.doctor_id
  /\ a.appointment_date = b.appointment_date
  /\ a.appointment_time = b.appointment_time

OwningDoctor(user, a) == user.role = "doctor" /\ user.sub = a.doctor_id

OwningPatient(user, a) == user.role = "patient" /\ user.sub = a.patient_id

\* the edges of the transition table, with the actor each one requires
AllowedEdge(from, to, user, a) ==
  \/ from = "pending"   /\ to = "confirmed" /\ OwningDoctor(user, a)
  \/ from = "pending"   /\ to = "cancelled"
       /\ (OwningDoctor(user, a) \/ OwningPatient(user, a))
  \/ from = "confirmed" /\ to = "cancelled" /\ OwningPatient(user, a)
  \/ from = "confirmed" /\ to = "completed" /\ OwningDoctor(user, a)

\* no two appointments of one doctor, date and time are both pending or
\* confirmed
ExclusiveIn(A) ==
  \A i, j \in DOMAIN A :
    (i # j /\ SameSlot(A[i], A[j]))
      => ~( /\ A[i].status \in { "pending", "confirmed" }
            /\ A[j].status \in { "pending", "confirmed" } )

\* handler h has answered a request of this operation
Done(h, op) == reqs[h].pc = "done" /\ reqs[h].op = op

\* the requests of h and g were in flight together
Overlapped(h, g) == g \in reqs[h].ov /\ h \in reqs[g].ov

\* in this step, handler h runs a store call of the request it is serving
Acts(h) ==
  /\ InFlight(h)
  /\ [reqs'[h] EXCEPT !.ov = {}] # [reqs[h] EXCEPT !.ov = {}]

\* in this step, handler h receives a request
Receives(h) ==
  /\ ~InFlight(h)
  /\ reqs'[h].pc # "idle"
  /\ \A g \in Handlers : ~Acts(g)

\* in this step, handler h answers a request of this operation
Answers(h, op) ==
  /\ Acts(h) \/ Receives(h)
  /\ reqs'[h].pc = "done"
  /\ reqs'[h].op = op

\* the wall-clock string HH:MM of a minute of the day
Clock(m) ==
  ToString((m \div 60) \div 10) \o ToString((m \div 60) % 10) \o ":"
    \o ToString((m % 60) \div 10) \o ToString((m % 60) % 10)

\* the minute of the day of a wall-clock string on the half-hour grid
MinuteOfDay(t) == CHOOSE m \in { 30 * n : n \in 0..48 } : Clock(m) = t

\* the schedules of a doctor and date
Published(S, doctor_id, date) ==
  { i \in DOMAIN S : S[i].doctor_id = doctor_id /\ S[i].date = date }

\* a pending or confirmed appointment holds the doctor, date and time
Occupied(A, doctor_id, date, time) ==
  \E id \in DOMAIN A :
    /\ A[id].doctor_id = doctor_id
    /\ A[id].appointment_date = date
    /\ A[id].appointment_time = time
    /\ A[id].status \in { "pending", "confirmed" }

\* the first schedule of the doctor and date offers the time in a slot
\* flagged available
Offered(S, doctor_id, date, time) ==
  /\ Published(S, doctor_id, date) # {}
  /\ LET i == CHOOSE i \in Published(S, doctor_id, date) :
                \A j \in Published(S, doctor_id, date) : i <= j
     IN  \E k \in DOMAIN S[i].time_slots :
           /\ S[i].time_slots[k].start_time = time
           /\ S[i].time_slots[k].is_available

-----------------------------------------------------------------------------
(* Properties *)

\* C1 - Exclusivity: no two appointments of the same doctor, date and time
\* are both pending or confirmed, under any interleaving of create requests.
Exclusivity == ExclusiveIn(appointments)

\* C2 - Race: of two create requests of two patients that were in flight
\* together for the same doctor, date and time, each received while the slot
\* was published and free, exactly one is answered with the new appointment
\* and the other with the conflict "Time slot already booked".
RaceOneWinner ==
  \A h, g \in Handlers :
    ( /\ h # g
      /\ Done(h, "create") /\ Done(g, "create")
      /\ Overlapped(h, g)
      /\ reqs[h].user # reqs[g].user
      /\ reqs[h].free /\ reqs[g].free
      /\ reqs[h].doctor_id = reqs[g].doctor_id
      /\ reqs[h].appointment_date = reqs[g].appointment_date
      /\ reqs[h].appointment_time = reqs[g].appointment_time )
    => \/ /\ reqs[h].resp = Ok
          /\ reqs[g].resp = Resp(400, "Time slot already booked")
       \/ /\ reqs[g].resp = Ok
          /\ reqs[h].resp = Resp(400, "Time slot already booked")

\* C3 - Transition closure: in every reachable store, an updateStatus request
\* of a doctor or a patient for another status on a stored appointment,
\* whose (current status, requested status, caller) is no edge of the
\* transition table, is refused with a 4xx answer and the status stays, even
\* when no other request is served between its read and its write.
TransitionClosure ==
  \A id \in DOMAIN appointments, user \in Tokens, status \in Statuses,
     doctor_notes \in BodyNotes :
    ( /\ user.role \in { "doctor", "patient" }
      /\ status # appointments[id].status
      /\ ~AllowedEdge(appointments[id].status, status, user, appointments[id]) )
    => LET out == PatchOutcome(appointments, user, id, status, doctor_notes)
       IN  /\ out.resp.code \in { 400, 403, 409 }
           /\ out.appointments[id].status = appointments[id].status

\* C4 - Terminal states: a completed or cancelled appointment keeps its
\* status in every step.
TerminalStatesFinal ==
  [][ \A id \in DOMAIN appointments :
        appointments[id].status \in { "completed", "cancelled" }
          => appointments'[id].status = appointments[id].status ]_vars

\* C5 - Concurrent updateStatus: two updateStatus requests on the same
\* appointment that were in flight together and read the same status, asking
\* for two different other statuses, are not both answered with success.
RaceOneTransition ==
  \A h, g \in Handlers :
    ( /\ h # g
      /\ Done(h, "updateStatus") /\ Done(g, "updateStatus")
      /\ Overlapped(h, g)
      /\ reqs[h].appointment_id = reqs[g].appointment_id
      /\ reqs[h].resp = Ok /\ reqs[g].resp = Ok )
    => ~( /\ reqs[h].loaded.status = reqs[g].loaded.status
          /\ reqs[h].status # reqs[h].loaded.status
          /\ reqs[g].status # reqs[g].loaded.status
          /\ reqs[h].status # reqs[g].status )

\* C6 - updateStatus authorization: in every reachable store, an updateStatus
\* request on a stored appointment by a doctor who is not its doctor, by a
\* patient who is not its patient, or by its patient for a status other than
\* cancelled, is answered 403 in the step that loads the appointment, so
\* that it writes nothing and every appointment is left as it is.
UpdateStatusAuthorization ==
  \A id \in DOMAIN appointments, user \in Tokens, status \in BodyStatuses,
     doctor_notes \in BodyNotes :
    ( \/ user.role = "doctor" /\ user.sub # appointments[id].doctor_id
      \/ user.role = "patient" /\ user.sub # appointments[id].patient_id
      \/ OwningPatient(user, appointments[id]) /\ status # "cancelled" )
    => LET d   == PatchDecision(appointments, user, id, status, doctor_notes)
           out == PatchOutcome(appointments, user, id, status, doctor_notes)
       IN  /\ d.resp.code = 403
           /\ out.resp.code = 403
           /\ out.appointments = appointments

\* the owning patient has been refused a status other than cancelled
UpdateStatusRefused ==
  \E h \in Handlers :
    /\ Done(h, "updateStatus")
    /\ reqs[h].resp = Resp(403, "Patients can only cancel appointments")
    /\ reqs[h].appointment_id \in DOMAIN appointments
    /\ OwningPatient(reqs[h].user, appointments[reqs[h].appointment_id])
    /\ reqs[h].status = "confirmed"

\* C7 - Only owners mutate: in every reachable store, an updateStatus request
\* that changes the status of an appointment is made by its owning doctor or
\* its owning patient.
OnlyOwnersMutate ==
  \A id \in DOMAIN appointments, user \in Tokens, status \in BodyStatuses,
     doctor_notes \in BodyNotes :
    LET out == PatchOutcome(appointments, user, id, status, doctor_notes)
    IN  out.appointments[id].status # appointments[id].status
          => \/ OwningDoctor(user, appointments[id])
             \/ OwningPatient(user, appointments[id])

\* C8 - Completion requires notes: in every reachable store, updateStatus to
\* completed with empty doctor_notes is refused and the status stays; the
\* owning doctor's completion of a confirmed appointment with notes succeeds
\* and stores them.
CompletionRequiresNotes ==
  \A id \in DOMAIN appointments, user \in Tokens, doctor_notes \in BodyNotes :
    LET out == PatchOutcome(appointments, user, id, "completed", doctor_notes)
    IN  /\ ~Truthy(doctor_notes)
           => /\ out.resp.code # 200
              /\ out.appointments[id].status = appointments[id].status
        /\ ( /\ Truthy(doctor_notes)
             /\ OwningDoctor(user, appointments[id])
             /\ appointments[id].status = "confirmed" )
           => /\ out.resp.code = 200
              /\ out.appointments[id].status = "completed"
              /\ out.appointments[id].doctor_notes = doctor_notes

\* C9 - No double-publish: in every reachable store, a publish request of a
\* doctor for a date that already has a schedule of that doctor is answered
\* with the conflict "Schedule for this date already exists" in the step
\* that looks the schedule up, and leaves the schedules, the stored slots
\* included, as they are.
NoDoublePublish ==
  \A i \in DOMAIN schedules, user \in Tokens, time_slots \in SlotLists :
    (user.role = "doctor" /\ schedules[i].doctor_id = user.sub)
    => LET out == PublishOutcome(schedules, user, schedules[i].date, time_slots)
       IN  /\ PublishDecision(schedules, user, schedules[i].date)
                = Resp(400, "Schedule for this date already exists")
           /\ out.resp = Resp(400, "Schedule for this date already exists")
           /\ out.schedules = schedules

\* a second publish has been refused and the schedule stored by the first
\* one is in the store
SecondPublishRefused ==
  \E h \in Handlers :
    /\ Done(h, "publish")
    /\ reqs[h].resp.code = 400
    /\ \E i \in DOMAIN schedules : schedules[i].doctor_id = reqs[h].user.sub

\* C10 - Availability uniqueness: no two schedules of the same doctor and
\* date, under any interleaving of publish requests.
AvailabilityUnique ==
  \A i, j \in DOMAIN schedules :
    i # j => ~( /\ schedules[i].doctor_id = schedules[j].doctor_id
                /\ schedules[i].date = schedules[j].date )

\* C11 - Free-slot derivation: the free-slot query for a doctor and date
\* answers without error.  When its schedule lookup finds no schedule
\* published, it answers the empty list.  Otherwise it answers exactly the
\* slots of the schedule it has read, in published order, that are flagged
\* available and whose start time is not the time of an appointment of that
\* doctor and date that is pending or confirmed when the appointments are
\* read (a completed or cancelled appointment hides no slot).
FreeSlotDerivation ==
  [][ \A h \in Handlers :
        /\ (Receives(h) /\ reqs'[h].op = "freeSlots")
           => LET r         == reqs'[h]
                  published == Published(schedules, r.doctor_id, r.date)
              IN  /\ published = {}
                     => /\ r.pc = "done"
                        /\ r.resp.code = 200
                        /\ r.slots = << >>
                  /\ published # {}
                     => /\ r.pc # "done"
                        /\ \E i \in published :
                             /\ \A j \in published : i <= j
                             /\ r.time_slots = schedules[i].time_slots
        /\ (Acts(h) /\ reqs[h].op = "freeSlots")
           => LET r    == reqs'[h]
                  ts   == reqs[h].time_slots
                  free == { k \in DOMAIN ts :
                              /\ ts[k].is_available
                              /\ ~Occupied(appointments, r.doctor_id, r.date,
                                           ts[k].start_time) }
              IN  /\ r.pc = "done"
                  /\ r.resp.code = 200
                  /\ Len(r.slots) = Cardinality(free)
                  /\ \A k \in free :
                       r.slots[Cardinality({ j \in free : j <= k })] = ts[k]
    ]_vars

\* a query, with no other request in flight meanwhile, has answered the one
\* slot left of two available published slots (the spec's example): the
\* other slot is held by a confirmed appointment, while a completed or
\* cancelled appointment of the same doctor, date and time hides nothing
FreeSlotsAnswered ==
  \E h \in Handlers :
    /\ Done(h, "freeSlots")
    /\ reqs[h].ov = {}
    /\ \A g \in Handlers : ~InFlight(g)
    /\ Len(reqs[h].time_slots) = 3
    /\ Len(reqs[h].slots) = 1
    /\ reqs[h].slots[1].start_time = "08:30"
    /\ \E id \in DOMAIN appointments :
         /\ appointments[id].doctor_id = reqs[h].doctor_id
         /\ appointments[id].appointment_date = reqs[h].date
         /\ appointments[id].appointment_time = "09:00"
         /\ appointments[id].status = "confirmed"
    /\ \E id \in DOMAIN appointments :
         /\ appointments[id].doctor_id = reqs[h].doctor_id
         /\ appointments[id].appointment_date = reqs[h].date
         /\ appointments[id].appointment_time = "09:00"
         /\ appointments[id].status \in { "completed", "cancelled" }

\* C12 - Slot membership: the schedule check of a create request lets the
\* request on only if, at the time of the check, the doctor and date have a
\* schedule whose slots hold one starting at the time and flagged available;
\* otherwise it answers the conflict 400 ("Doctor not available on this
\* date" without a schedule, "Time slot not available" otherwise) and
\* persists nothing.  An appointment is persisted only by a create request
\* that passed that check, and has the doctor, date and time of the request.
SlotMembership ==
  [][ /\ \A h \in Handlers :
           /\ (Acts(h) /\ reqs[h].pc = "create_schedule")
              => LET r == reqs[h]
                 IN  IF Offered(schedules, r.doctor_id, r.appointment_date,
                                r.appointment_time)
                       THEN reqs'[h].pc = "create_booked"
                       ELSE /\ reqs'[h].pc = "done"
                            /\ reqs'[h].resp.code = 400
                            /\ reqs'[h].resp.detail =
                                 IF Published(schedules, r.doctor_id,
                                              r.appointment_date) = {}
                                   THEN "Doctor not available on this date"
                                   ELSE "Time slot not available"
                            /\ appointments' = appointments
           /\ (Acts(h) /\ reqs'[h].pc = "create_booked")
              => reqs[h].pc = "create_schedule"
           /\ (Acts(h) /\ reqs'[h].pc = "create_save")
              => reqs[h].pc = "create_booked"
      /\ Len(appointments') > Len(appointments)
         => \E h \in Handlers :
              LET n == Len(appointments')
              IN  /\ Acts(h) /\ reqs[h].pc = "create_save"
                  /\ n = Len(appointments) + 1
                  /\ appointments'[n].doctor_id = reqs[h].doctor_id
                  /\ appointments'[n].appointment_date = reqs[h].appointment_date
                  /\ appointments'[n].appointment_time = reqs[h].appointment_time
    ]_vars

\* a create request for a slot that the doctor's schedule of that date
\* flags unavailable has been refused
UnavailableSlotRefused ==
  \E h \in Handlers :
    /\ Done(h, "create")
    /\ reqs[h].resp = Resp(400, "Time slot not available")
    /\ \E i \in DOMAIN schedules :
         /\ schedules[i].doctor_id = reqs[h].doctor_id
         /\ \E k \in DOMAIN schedules[i].time_slots :
              /\ schedules[i].time_slots[k].start_time
                   = reqs[h].appointment_time
              /\ ~schedules[i].time_slots[k].is_available

\* C13 - Occupied slot rejected: a create request whose lookup of the active
\* appointments runs while a pending or confirmed appointment of its doctor,
\* date and time is in the store (so every create request that runs entirely
\* after such an appointment was committed and while it is active) is
\* answered with the conflict 400 "Time slot already booked" and persists
\* nothing; an appointment is persisted only by a create request that passed
\* that lookup.
OccupiedSlotRejected ==
  [][ \A h \in Handlers :
        /\ ( /\ Acts(h) /\ reqs[h].pc = "create_booked"
             /\ Occupied(appointments, reqs[h].doctor_id,
                         reqs[h].appointment_date, reqs[h].appointment_time) )
           => /\ reqs'[h].pc = "done"
              /\ reqs'[h].resp = Resp(400, "Time slot already booked")
              /\ appointments' = appointments
        /\ (Acts(h) /\ reqs'[h].pc = "create_save")
           => reqs[h].pc = "create_booked"
        /\ (Acts(h) /\ reqs[h].op = "create"
              /\ appointments' # appointments)
           => reqs[h].pc = "create_save"
    ]_vars

\* a create request has been refused for a slot that a confirmed appointment
\* holds
OccupiedSlotRefused ==
  \E h \in Handlers :
    /\ Done(h, "create")
    /\ reqs[h].resp = Resp(400, "Time slot already booked")
    /\ Len(appointments) = 1
    /\ appointments[1].status = "confirmed"
    /\ appointments[1].appointment_time = reqs[h].appointment_time

\* C14 - Creation by patients only: a create request of a caller whose role
\* is not patient is answered 403 when it is received and persists nothing;
\* a create request that succeeds is a patient's and adds one appointment,
\* with the caller's id as patient_id and status pending, leaving the others
\* as they are; and the appointments only grow by a create request that
\* succeeds.
CreationByPatientsOnly ==
  [][ /\ \A h \in Handlers :
           /\ ( /\ Receives(h) /\ reqs'[h].op = "create"
                /\ reqs'[h].user.role # "patient" )
              => /\ reqs'[h].pc = "done"
                 /\ reqs'[h].resp.code = 403
                 /\ appointments' = appointments
           /\ (Answers(h, "create") /\ reqs'[h].resp.code = 200)
              => LET n == Len(appointments')
                 IN  /\ reqs'[h].user.role = "patient"
                     /\ n = Len(appointments) + 1
                     /\ \A id \in DOMAIN appointments :
                          appointments'[id] = appointments[id]
                     /\ appointments'[n].patient_id = reqs'[h].user.sub
                     /\ appointments'[n].status = "pending"
      /\ Len(appointments') # Len(appointments)
         => \E h \in Handlers :
              Answers(h, "create") /\ reqs'[h].resp.code = 200
    ]_vars

\* a doctor with a published schedule has been refused a create request, and
\* a patient's appointment with that doctor is in the store
DoctorCreateRefused ==
  \E h \in Handlers :
    /\ Done(h, "create")
    /\ reqs[h].resp.code = 403
    /\ reqs[h].user.role = "doctor"
    /\ \E i \in DOMAIN schedules : schedules[i].doctor_id = reqs[h].user.sub
    /\ \E id \in DOMAIN appointments :
         /\ appointments[id].doctor_id = reqs[h].user.sub
         /\ appointments[id].status = "pending"
         /\ \E u \in users : u.id = appointments[id].patient_id
                               /\ u.role = "patient"

\* C15 - Status domain: every stored appointment has a status that is one of
\* pending, confirmed, completed, cancelled, whatever status value the
\* updateStatus requests carried or omitted.
StatusDomain ==
  \A id \in DOMAIN appointments : appointments[id].status \in Statuses

\* C16 - Immutable identity fields: in every step, every stored appointment
\* keeps its place in the store (its id), its patient_id, doctor_id,
\* appointment_date, appointment_time and reason.
IdentityFieldsImmutable ==
  [][ \A id \in DOMAIN appointments :
        /\ id \in DOMAIN appointments'
        /\ appointments'[id].patient_id = appointments[id].patient_id
        /\ appointments'[id].doctor_id = appointments[id].doctor_id
        /\ appointments'[id].appointment_date = appointments[id].appointment_date
        /\ appointments'[id].appointment_time = appointments[id].appointment_time
        /\ appointments'[id].reason = appointments[id].reason ]_vars

\* C17 - doctor_notes written only by the doctor: in every reachable store,
\* an updateStatus request that changes the doctor_notes of a stored
\* appointment is a request of the doctor of that appointment.
NotesOnlyByOwningDoctor ==
  \A id \in DOMAIN appointments, user \in Tokens, status \in Statuses,
     doctor_notes \in BodyNotes :
    LET out == PatchOutcome(appointments, user, id, status, doctor_notes)
    IN  out.appointments[id].doctor_notes # appointments[id].doctor_notes
          => OwningDoctor(user, appointments[id])

\* C18 - Appointments are never removed: in every step, of create,
\* updateStatus, cancel and the administrative user deletion, every
\* appointment of the store is still in the store, at its place and with its
\* date, time and reason; and the write of a cancel request, which answers
\* success, leaves the appointment in the store with status cancelled.
AppointmentsNeverRemoved ==
  [][ /\ Len(appointments') >= Len(appointments)
      /\ \A id \in DOMAIN appointments :
           /\ appointments'[id].appointment_date = appointments[id].appointment_date
           /\ appointments'[id].appointment_time = appointments[id].appointment_time
           /\ appointments'[id].reason = appointments[id].reason
      /\ \A h \in Handlers :
           (Acts(h) /\ reqs[h].op = "cancel")
           => /\ reqs'[h].resp = Ok
              /\ Len(appointments') = Len(appointments)
              /\ reqs[h].appointment_id \in DOMAIN appointments'
              /\ appointments'[reqs[h].appointment_id].status = "cancelled"
    ]_vars

\* C19 - cancel equals updateStatus(cancelled): in every reachable store, for
\* every patient and every appointment id, stored or not, the cancel request
\* (DELETE) and the updateStatus request with status cancelled and no
\* doctor_notes (PATCH) take the same decision on the document they load,
\* with the same status code (200, 403 or 404), hand the same assignment to
\* the same save, and served alone leave the same store.
CancelEqualsUpdateStatus ==
  \A user \in Tokens, id \in AppointmentIds :
    user.role = "patient"
    => LET cd == CancelDecision(appointments, user, id)
           ud == PatchDecision(appointments, user, id, "cancelled", NULL)
           c  == CancelOutcome(appointments, user, id)
           u  == PatchOutcome(appointments, user, id, "cancelled", NULL)
       IN  /\ cd.resp.code = ud.resp.code
           /\ cd.resp.code \in { 200, 403, 404 }
           /\ cd.resp = Ok => cd.loaded = ud.loaded /\ cd.assigned = ud.assigned
           /\ c.resp.code = u.resp.code
           /\ c.appointments = u.appointments

\* a patient has cancelled an own appointment through DELETE while an
\* appointment of another patient is in the store
OwnAppointmentCancelled ==
  \E h \in Handlers :
    /\ Done(h, "cancel")
    /\ reqs[h].resp = Ok
    /\ reqs[h].user.role = "patient"
    /\ \E id \in DOMAIN appointments :
         /\ appointments[id].patient_id = reqs[h].user.sub
         /\ appointments[id].status = "cancelled"
    /\ \E id \in DOMAIN appointments :
         appointments[id].patient_id # reqs[h].user.sub

\* C20 - No partial writes: the step in which a create, updateStatus, cancel
\* or publish request is answered with an error (any code other than 200)
\* leaves the appointments and the schedules, all their fields included, as
\* they are, and the request has written nothing before: every step of such
\* a request that writes is its last and answers 200.
NoPartialWrites ==
  [][ \A h \in Handlers :
        /\ ( /\ Acts(h) \/ Receives(h)
             /\ reqs'[h].op \in { "create", "updateStatus", "cancel", "publish" }
             /\ reqs'[h].pc = "done"
             /\ reqs'[h].resp.code # 200 )
           => /\ appointments' = appointments
              /\ schedules' = schedules
        /\ ( /\ Acts(h) \/ Receives(h)
             /\ reqs'[h].op \in { "create", "updateStatus", "cancel", "publish" }
             /\ (appointments' # appointments \/ schedules' # schedules) )
           => /\ reqs'[h].pc = "done"
              /\ reqs'[h].resp.code = 200
    ]_vars

\* an updateStatus request of the owning doctor carrying a status outside
\* the enum has failed validation
UpdateFailedValidation ==
  \E h \in Handlers :
    /\ Done(h, "updateStatus")
    /\ reqs[h].resp.code = 500
    /\ reqs[h].user.role = "doctor"
    /\ reqs[h].appointment_id \in DOMAIN appointments
    /\ appointments[reqs[h].appointment_id].doctor_id = reqs[h].user.sub
    /\ appointments[reqs[h].appointment_id].status \in Statuses

\* C21 - Happy path: in every reachable store with a pending appointment
\* (created by a patient on a published slot), with the requests served one
\* after the other, the confirm of its doctor yields confirmed, the complete
\* of its doctor with notes then yields completed and stores the notes, and
\* every further updateStatus request on that appointment is refused with a
\* 4xx answer and leaves it completed.
HappyPath ==
  \A id \in DOMAIN appointments :
    LET a         == appointments[id]
        doctor    == [sub |-> a.doctor_id, role |-> "doctor"]
        confirmed == PatchOutcome(appointments, doctor, id, "confirmed", "")
        completed == PatchOutcome(confirmed.appointments, doctor, id,
                                  "completed", "healthy")
    IN  a.status = "pending"
        => /\ confirmed.resp.code = 200
           /\ confirmed.appointments[id].status = "confirmed"
           /\ completed.resp.code = 200
           /\ completed.appointments[id].status = "completed"
           /\ completed.appointments[id].doctor_notes = "healthy"
           /\ \A user \in Tokens, status \in Statuses, doctor_notes \in BodyNotes :
                LET out == PatchOutcome(completed.appointments, user, id,
                                        status, doctor_notes)
                IN  /\ out.resp.code \in { 400, 403, 409, 422 }
                    /\ out.appointments[id].status = "completed"

\* C22 - Slot definitions are immutable: in every step of create,
\* updateStatus, cancel and the free-slot query, every published schedule
\* stays in the store with the same doctor, date and slot sequence
\* (start_time, end_time and is_available of every slot).
SlotDefinitionsImmutable ==
  [][ \A i \in DOMAIN schedules :
        /\ i \in DOMAIN schedules'
        /\ schedules'[i] = schedules[i] ]_vars

\* a slot has been booked, the booking cancelled and the slot booked again,
\* and the schedule still flags the slot available
SlotRebookedScheduleIntact ==
  \E h \in Handlers :
    /\ Done(h, "create")
    /\ reqs[h].resp = Ok
    /\ Len(appointments) = 2
    /\ appointments[1].status = "cancelled"
    /\ SameSlot(appointments[1], appointments[2])
    /\ \E i \in DOMAIN schedules :
         /\ schedules[i].doctor_id = appointments[2].doctor_id
         /\ \E k \in DOMAIN schedules[i].time_slots :
              /\ schedules[i].time_slots[k].start_time
                   = appointments[2].appointment_time
              /\ schedules[i].time_slots[k].is_available

\* C23 - Published slots are a valid sequence: the slots of every stored
\* schedule are in chronological order of start_time, with no repeated
\* start_time, and no slot begins before the one before it ends.
PublishedSlotsValid ==
  \A i \in DOMAIN schedules :
    \A k, l \in DOMAIN schedules[i].time_slots :
      k < l => /\ MinuteOfDay(schedules[i].time_slots[k].start_time)
                   < MinuteOfDay(schedules[i].time_slots[l].start_time)
               /\ MinuteOfDay(schedules[i].time_slots[k].end_time)
                   <= MinuteOfDay(schedules[i].time_slots[l].start_time)

\* C24 - Reference slot generator: generateTimeSlots, and with it every
\* stored schedule that was published from it, is a list of 18 slots, the
\* k-th one from minute 08:00 + 30(k-1) to minute 08:00 + 30k of the day
\* (so the first starts at 08:00, the last ends at 17:00, each lasts 30
\* minutes and ends where the next one starts, in ascending order), every
\* one flagged available.
ReferenceSlotGenerator ==
  \A slots \in { generateTimeSlots }
                \cup { schedules[i].time_slots :
                         i \in { j \in DOMAIN schedules :
                                   Len(schedules[j].time_slots) > 2 } } :
    /\ Len(slots) = 18
    /\ \A k \in 1..18 :
         /\ slots[k].start_time = Clock(480 + 30 * (k - 1))
         /\ slots[k].end_time = Clock(480 + 30 * k)
         /\ slots[k].is_available = TRUE
    /\ slots[1].start_time = "08:00"
    /\ slots[18].end_time = "17:00"

\* a doctor has published the generated slots, and they are the stored
\* schedule
GeneratedSlotsPublished ==
  \E h \in Handlers :
    /\ Done(h, "publish")
    /\ reqs[h].resp = Ok
    /\ Len(schedules) = 1
    /\ schedules[1].doctor_id = reqs[h].user.sub
    /\ schedules[1].time_slots = generateTimeSlots
    /\ Len(schedules[1].time_slots) = 18

\* C25 - Slot release: in every reachable store, for a cancelled or completed
\* appointment whose doctor, date and time no pending or confirmed
\* appointment holds, the free-slot query of that doctor and date lists a
\* slot starting at that time, and a create request of any patient for that
\* doctor, date and time succeeds and adds a pending appointment of that
\* patient on the slot, the requests being served one after the other.
SlotRelease ==
  \A id \in DOMAIN appointments :
    LET a == appointments[id]
    IN  ( /\ a.status \in { "cancelled", "completed" }
          /\ \A other \in DOMAIN appointments :
               SameSlot(appointments[other], a)
                 => appointments[other].status \notin { "pending", "confirmed" } )
        => /\ LET free == AvailableSlotsOutcome(schedules, appointments,
                                                a.doctor_id, a.appointment_date)
              IN  \E k \in DOMAIN free.slots :
                    free.slots[k].start_time = a.appointment_time
           /\ \A user \in Tokens :
                user.role = "patient"
                => LET out == CreateOutcome(users, schedules, appointments, user,
                                            a.doctor_id, a.appointment_date,
                                            a.appointment_time, "checkup")
                       n   == Len(out.appointments)
                   IN  /\ out.resp.code = 200
                       /\ n = Len(appointments) + 1
                       /\ out.appointments[n].status = "pending"
                       /\ out.appointments[n].patient_id = user.sub
                       /\ SameSlot(out.appointments[n], a)

\* the slot of a completed appointment has been booked again, by another
\* patient
ReleasedSlotRebooked ==
  \E h \in Handlers :
    /\ Done(h, "create")
    /\ reqs[h].resp = Ok
    /\ Len(appointments) = 2
    /\ appointments[1].status = "completed"
    /\ appointments[2].status = "pending"
    /\ SameSlot(appointments[1], appointments[2])
    /\ appointments[2].patient_id = reqs[h].user.sub
    /\ appointments[2].patient_id # appointments[1].patient_id

\* C26 - Unique human-readable codes: no two stored patients have the same
\* patient code and no two stored doctors the same doctor code, after any
\* registrations and administrative deletions, registrations of the same
\* role in flight together included.
CodesUnique ==
  \A u, v \in users :
    u # v => /\ u.patient_code # NULL => u.patient_code # v.patient_code
             /\ u.doctor_code # NULL => u.doctor_code # v.doctor_code

\* C27 - Exclusivity is preserved by status changes: in every reachable
\* store in which no two appointments of the same doctor, date and time are
\* both pending or confirmed, an updateStatus request that is served alone
\* and succeeds leaves a store in which that still holds.
ExclusivityAfterUpdateStatus ==
  ExclusiveIn(appointments)
  => \A id \in DOMAIN appointments, user \in Tokens, status \in Statuses,
        doctor_notes \in BodyNotes :
       LET out == PatchOutcome(appointments, user, id, status, doctor_notes)
       IN  out.resp.code = 200 => ExclusiveIn(out.appointments)

\* C28 - Free-slot listing agrees with create: in every reachable store, for
\* every stored doctor, every date and every time, a create request of a
\* patient (with a reason) for that doctor, date and time, served alone,
\* succeeds if and only if the free-slot query of that doctor and date lists
\* a slot that starts at that time.
ListingAgreesWithCreate ==
  \A doctor_id \in QueryDoctorIds, date \in Dates,
     time \in Times \cup { "08:30" }, user \in Tokens :
    ( /\ user.role = "patient"
      /\ \E u \in users : u.id = doctor_id /\ u.role = "doctor" )
    => LET out  == CreateOutcome(users, schedules, appointments, user,
                                 doctor_id, date, time, "checkup")
           free == AvailableSlotsOutcome(schedules, appointments, doctor_id, date)
       IN  out.resp.code = 200
             <=> \E k \in DOMAIN free.slots : free.slots[k].start_time = time

\* a query has listed both available slots of a schedule that also has a
\* slot flagged unavailable, a cancelled appointment being on one of them
BothSlotsListed ==
  \E h \in Handlers :
    /\ Done(h, "freeSlots")
    /\ Len(reqs[h].slots) = 2
    /\ \E i \in DOMAIN schedules :
         /\ schedules[i].doctor_id = reqs[h].doctor_id
         /\ Len(schedules[i].time_slots) = 3
    /\ \E id \in DOMAIN appointments :
         /\ appointments[id].doctor_id = reqs[h].doctor_id
         /\ appointments[id].status = "cancelled"
         /\ \E k \in DOMAIN reqs[h].slots :
              reqs[h].slots[k].start_time = appointments[id].appointment_time

\* C29 - listMine returns exactly the caller's appointments: a listMine
\* request during which no other request was served answers a patient with
\* every stored appointment whose patient_id is the caller and no other, and
\* a doctor with every stored appointment whose doctor_id is the caller and
\* no other; so an appointment the patient has created is in that patient's
\* list.
ListMineExact ==
  [][ \A h \in Handlers :
        ( /\ Answers(h, "listMine")
          /\ reqs'[h].ov = {}
          /\ reqs'[h].user.role \in { "patient", "doctor" } )
        => { reqs'[h].result[n] : n \in DOMAIN reqs'[h].result } =
             { i \in DOMAIN appointments :
                 IF reqs'[h].user.role = "patient"
                   THEN appointments[i].patient_id = reqs'[h].user.sub
                   ELSE appointments[i].doctor_id = reqs'[h].user.sub }
    ]_vars

\* C30 - Admin endpoints are admin-only: a GET request to a path under
\* /api/admin/ by a caller whose role is not admin is answered 403 and its
\* answer holds no user or appointment data, and the deletion of a user by
\* such a caller is answered 403.
AdminEndpointsAdminOnly ==
  /\ \A h \in Handlers :
       (Done(h, "adminGet") /\ reqs[h].user.role # "admin")
       => /\ reqs[h].resp.code = 403
          /\ reqs[h].listed = {}
          /\ reqs[h].result = << >>
          /\ reqs[h].counts = << >>
  /\ \A user \in Tokens, id \in DeleteUserIds :
       user.role # "admin" => DeleteDecision(users, user, id).code = 403

====
